---- MODULE Spec2Model ----
(***************************************************************************)
(* Model of examples/rowland_sagittal_tests.py (class TestSagittalFocusing):*)
(* the flush-on-next-row parser read_data and the evaluation methods that  *)
(* read the parsed dictionary.                                             *)
(*                                                                         *)
(* Text fields of a csv row are tokens [k, v]:                             *)
(*   k = "int"  an integer literal  ("3"),    int() and float() accept it  *)
(*   k = "flt"  a float literal     ("3.0"),  only float() accepts it      *)
(*   k = "str"  non-numeric text    ("abc"),  neither accepts it           *)
(*   k = "emp"  the empty string                                           *)
(*   k = "cmt"  text starting with '#'                                     *)
(* Python numbers are [t, v] with t = "int" or "float"; v is the value.    *)
(* Dictionary keys made by str() are tokens again: str(0) is the text "0"  *)
(* and str(0.0) is the text "0.0", two different keys.                     *)
(***************************************************************************)
EXTENDS Integers, Sequences, FiniteSets, TLC

\* ------------------------------------------------------------------ bounds
\* pts_shape[0] of the parser runs (the source's callers pass 12 or 13).
NPts == 2
\* Longest stream the parser is fed.
MaxRows == 4
\* Largest angle index, run index and actuator position of a data row.
MaxAng == 1
MaxRun == 1
MaxPos == 1
\* Largest angle, thickness, spread and radius given to a crystal's setters.
MaxPar == 1

VARIABLES
    pc,        \* position of read_data: "idle", "reading", "stopped", "done", "raised"
    stream,    \* the rows the csv reader has yielded so far
    _pts,      \* point buffer (np.zeros(pts_shape))
    _apos,     \* position map of the current run: ordered <<key, points>> pairs
    _runs,     \* run map of the current angle
    _bpos,     \* actuator position remembered for the next flush
    _ptx,      \* the buffer holds a group whose last index was seen
    _rnx,      \* current run
    _angx,     \* current angle
    _frun,     \* the run was not flushed by this row
    angs,      \* the dictionary being built
    errline,   \* line number of the printed 'ERROR reading line', 0 if none
    ret,       \* value returned by the last call
    dats,      \* self.dats
    sp,        \* self.sp
    th0,       \* self.th0
    dists,     \* self.poss and self.dists
    exc,       \* exception the last call left with, "" if it returned
    printed,   \* the ERROR lines the last evaluation call printed
    last,      \* the last call: its name, arguments and whether self.sp was None before it
    oe         \* self.sw._oe of a PlaneCrystal: the fields its setters write

vars == <<pc, stream, _pts, _apos, _runs, _bpos, _ptx, _rnx, _angx, _frun,
          angs, errline, ret, dats, sp, th0, dists, exc, printed, last, oe>>

evalvars == <<dists, exc, printed, last>>

\* ------------------------------------------------------------------ tokens
I(n) == [k |-> "int", v |-> n]
F(n) == [k |-> "flt", v |-> n]
S == [k |-> "str", v |-> 0]
E == [k |-> "emp", v |-> 0]
H == [k |-> "cmt", v |-> 0]
\* the text "-0.0": a float literal, numerically equal to "0.0"
NegZero == [k |-> "-0.0", v |-> 0]

\* int(text) succeeds
IntOk(tok) == tok.k = "int"
\* float(text) succeeds
FloatOk(tok) == tok.k \in {"int", "flt", "-0.0"}
PyInt(n) == [t |-> "int", v |-> n]
PyFloat(n) == [t |-> "float", v |-> n]
\* float(text): the sign of a zero is kept
ToFloat(tok) == IF tok.k = "-0.0" THEN [t |-> "float-", v |-> 0] ELSE PyFloat(tok.v)
\* str(number)
PyStr(x) ==
    IF x.t = "int" THEN I(x.v) ELSE IF x.t = "float-" THEN NegZero ELSE F(x.v)

\* Values of ret, self.dats, self.sp and self.th0: None, a missing attribute,
\* a dictionary.
None == [t |-> "None"]
Unset == [t |-> "unset"]
Dict(d) == [t |-> "dict", d |-> d]

\* ------------------------------------------------------------ dictionaries
\* d[k] = v on a dictionary without iteration order
DictSet(d, k, v) == [x \in (DOMAIN d) \cup {k} |-> IF x = k THEN v ELSE d[x]]
EmptyDict == [x \in {} |-> 0]

\* an insertion-ordered dictionary is a sequence of <<key, value>> pairs
Keys(od) == {od[j][1] : j \in 1..Len(od)}
OGet(od, k) == LET j == CHOOSE j \in 1..Len(od) : od[j][1] = k IN od[j][2]
\* od[k] = v: a present key keeps its place, a new key goes last
OSet(od, k, v) ==
    IF k \in Keys(od)
    THEN [j \in 1..Len(od) |-> IF od[j][1] = k THEN <<k, v>> ELSE od[j]]
    ELSE Append(od, <<k, v>>)

\* ------------------------------------------------------------------ parser
\* np.zeros(pts_shape): n rows of three zeros, indexed 0..n-1
Zeros(n) == [j \in 0..(n - 1) |-> <<0, 0, 0>>]

\* row[-3:] of a row, as floats
Last3(row) == SubSeq(row, Len(row) - 2, Len(row))
Last3Ok(row) == \A j \in 1..3 : FloatOk(Last3(row)[j])
Coords(row) == [j \in 1..3 |-> Last3(row)[j].v]

\* numpy index: -n..-1 count from the end, anything outside -n..n-1 raises
IndexOk(pt, n) == pt >= 0 - n /\ pt <= n - 1
Index(pt, n) == IF pt < 0 THEN n + pt ELSE pt

\* the four conversions at the head of the try block succeed
HeadOk(row) ==
    /\ Len(row) >= 5
    /\ IntOk(row[2]) /\ IntOk(row[3]) /\ FloatOk(row[4]) /\ IntOk(row[5])

InitLocals(n) ==
    [pts |-> Zeros(n), apos |-> <<>>, runs |-> EmptyDict, bpos |-> PyInt(0),
     ptx |-> FALSE, rnx |-> 0, angx |-> 0, frun |-> TRUE, angs |-> EmptyDict,
     out |-> "ok"]

\* 'if _ptx:' flush points
FlushPoints(st, n) ==
    IF st.ptx
    THEN [st EXCEPT !.apos = OSet(st.apos, PyStr(st.bpos), st.pts),
                    !.ptx = FALSE,
                    !.pts = Zeros(n)]
    ELSE st

\* StorePoint with the point appended to the buffer instead of stored at pt.
StorePointAppend(st, row, n) ==
    LET pt == row[5].v
        m == Cardinality(DOMAIN st.pts)
        s1 == [st EXCEPT !.pts = [j \in 0..m |-> IF j = m THEN Coords(row)
                                                         ELSE st.pts[j]]]
    IN  IF pt = n - 1
        THEN [s1 EXCEPT !.bpos = ToFloat(row[4]), !.ptx = TRUE]
        ELSE s1

\* StorePoint with the group flushed as soon as its last point is stored.
StorePointEager(st, row, n) ==
    LET pt == row[5].v
        s1 == [st EXCEPT !.pts[Index(pt, n)] = Coords(row)]
    IN  IF pt = n - 1
        THEN [s1 EXCEPT !.bpos = ToFloat(row[4]),
                        !.apos = OSet(s1.apos, PyStr(ToFloat(row[4])), s1.pts),
                        !.pts = Zeros(n)]
        ELSE s1

\* '_pts[pt] = ...' and 'if pt == (pts_shape[0]-1):'
StorePoint(st, row, n) ==
    LET pt == row[5].v
        s1 == [st EXCEPT !.pts[Index(pt, n)] = Coords(row)]
    IN  IF pt = n - 1
        THEN [s1 EXCEPT !.bpos = ToFloat(row[4]), !.ptx = TRUE]
        ELSE s1

\* 'if run != _rnx:' flush positions
FlushPositions(st, run) ==
    IF run # st.rnx
    THEN [st EXCEPT !.runs = DictSet(st.runs, st.rnx, st.apos),
                    !.rnx = run,
                    !.apos = <<>>,
                    !.frun = FALSE]
    ELSE st

\* 'if ang != _angx:' flush runs
FlushRuns(st, ang) ==
    IF ang # st.angx
    THEN LET s1 == IF st.frun
                   THEN [st EXCEPT !.runs = DictSet(st.runs, st.rnx, st.apos),
                                   !.apos = <<>>]
                   ELSE st
         IN  [s1 EXCEPT !.angs = DictSet(s1.angs, s1.angx, s1.runs),
                        !.angx = ang,
                        !.rnx = 0,
                        !.runs = EmptyDict]
    ELSE st

\* ProcessRow with a comment row flushing the completed points.
ProcessRowCommentFlush(st, row, n) ==
    IF Len(row) = 0 \/ row[1].k = "emp"
    THEN [st EXCEPT !.out = "uncaught"]
    ELSE IF row[1].k = "cmt"
    THEN FlushPoints(st, n)
    ELSE LET s0 == [st EXCEPT !.frun = TRUE] IN
         IF ~HeadOk(row)
         THEN [s0 EXCEPT !.out = "caught"]
         ELSE LET s1 == FlushPoints(s0, n) IN
              IF ~Last3Ok(row) \/ ~IndexOk(row[5].v, n)
              THEN [s1 EXCEPT !.out = "caught"]
              ELSE FlushRuns(FlushPositions(StorePoint(s1, row, n), row[3].v),
                             row[2].v)

\* One iteration of 'for irow, row in enumerate(fr)'.  out is
\*   "ok"       the loop goes on,
\*   "caught"   the except clause printed the error and broke the loop,
\*   "uncaught" an exception left read_data.
ProcessRow(st, row, n) ==
    IF Len(row) = 0 \/ row[1].k = "emp"
    THEN [st EXCEPT !.out = "uncaught"]
    ELSE IF row[1].k = "cmt"
    THEN st
    ELSE LET s0 == [st EXCEPT !.frun = TRUE] IN
         IF ~HeadOk(row)
         THEN [s0 EXCEPT !.out = "caught"]
         ELSE LET s1 == FlushPoints(s0, n) IN
              IF ~Last3Ok(row) \/ ~IndexOk(row[5].v, n)
              THEN [s1 EXCEPT !.out = "caught"]
              ELSE FlushRuns(FlushPositions(StorePoint(s1, row, n), row[3].v),
                             row[2].v)

\* '#final flush all'
FinalFlush(st) ==
    LET apos == OSet(st.apos, PyStr(st.bpos), st.pts)
        runs == DictSet(st.runs, st.rnx, apos)
    IN  [st EXCEPT !.apos = apos,
                   !.runs = runs,
                   !.angs = DictSet(st.angs, st.angx, runs)]

\* The whole loop over a stream, from the state st on.
RECURSIVE RunRows(_, _, _)
RunRows(st, rows, n) ==
    IF rows = <<>> \/ st.out # "ok"
    THEN st
    ELSE RunRows(ProcessRow(st, Head(rows), n), Tail(rows), n)

\* The dictionary read_data builds from a stream; "raised" when it raises.
ParseStream(rows, n) ==
    LET st == RunRows(InitLocals(n), rows, n)
    IN  IF st.out = "uncaught" THEN "raised" ELSE FinalFlush(st).angs

\* ------------------------------------------------------------ the streams
DataRow(a, r, p, i, c) == <<I(0), I(a), I(r), F(p), I(i), F(c), F(c), F(c)>>

\* The rows a stream may hold.  The data row on line c carries the
\* coordinates (c, c, c), so a stored coordinate names the row it came from.
GoodRows(c) ==
    {DataRow(a, r, p, i, c) :
        a \in 0..MaxAng, r \in 0..MaxRun, p \in 0..MaxPos, i \in 0..(NPts - 1)}

\* Rows that are no well-formed data row.
OddRows(c) ==
    LET b == DataRow(0, 0, 0, 0, c) IN
    { <<H>>,                                  \* a comment
      <<>>,                                   \* an empty line
      [b EXCEPT ![1] = E],                    \* first field empty
      [b EXCEPT ![2] = S],                    \* non-numeric angle
      [b EXCEPT ![3] = S],                    \* non-numeric run
      [b EXCEPT ![4] = S],                    \* non-numeric actuator position
      [b EXCEPT ![5] = F(0)],                 \* point index written "0.0"
      [b EXCEPT ![8] = S],                    \* non-numeric z
      [b EXCEPT ![5] = I(NPts)],              \* point index N
      [b EXCEPT ![5] = I(0 - 1)],             \* point index -1
      SubSeq(b, 1, 4),                        \* four fields
      SubSeq(b, 1, 7),                        \* seven fields
      b \o <<F(c)>> }                         \* nine fields

Rows(c) == GoodRows(c) \cup OddRows(c)

Locals ==
    [pts |-> _pts, apos |-> _apos, runs |-> _runs, bpos |-> _bpos,
     ptx |-> _ptx, rnx |-> _rnx, angx |-> _angx, frun |-> _frun,
     angs |-> angs, out |-> "ok"]

SetLocals(st) ==
    /\ _pts' = st.pts
    /\ _apos' = st.apos
    /\ _runs' = st.runs
    /\ _bpos' = st.bpos
    /\ _ptx' = st.ptx
    /\ _rnx' = st.rnx
    /\ _angx' = st.angx
    /\ _frun' = st.frun
    /\ angs' = st.angs

\* ------------------------------------------------------------------ actions
\* __init__ has run: no dictionary yet, no plane.
\* The element a PlaneCrystal is constructed with: the three mode flags are
\* 0; the other fields hold what the empty element has, written 0 and "".
CreatePlaneCrystal ==
    [F_CRYSTAL |-> 0, FILE_REFL |-> "", F_CENTRAL |-> 0, F_PHOT_CENT |-> 0,
     PHOT_CENT |-> 0, R_LAMBDA |-> 0, F_MOSAIC |-> 0, MOSAIC_SEED |-> 0,
     SPREAD_MOS |-> 0, THICKNESS |-> 0, F_BRAGG_A |-> 0, A_BRAGG |-> 0,
     ORDER |-> 0, F_JOHANSSON |-> 0, F_EXT |-> 0, R_JOHANSSON |-> 0]

Init ==
    /\ pc = "idle"
    /\ stream = <<>>
    /\ _pts = Zeros(NPts)
    /\ _apos = <<>>
    /\ _runs = EmptyDict
    /\ _bpos = PyInt(0)
    /\ _ptx = FALSE
    /\ _rnx = 0
    /\ _angx = 0
    /\ _frun = TRUE
    /\ angs = EmptyDict
    /\ errline = 0
    /\ ret = Unset
    /\ dats = Unset
    /\ sp = None
    /\ th0 = Unset
    /\ dists = Unset
    /\ exc = ""
    /\ printed = {}
    /\ last = [op |-> "__init__", ang |-> 0, run |-> 0, set_sp |-> FALSE, nosp |-> TRUE]
    /\ oe = CreatePlaneCrystal

\* read_data is called: the file is opened and the locals are set up.
Open ==
    /\ pc = "idle"
    /\ pc' = "reading"
    /\ SetLocals(InitLocals(NPts))
    /\ UNCHANGED <<oe, stream, errline, ret, dats, sp, th0, evalvars>>

\* The csv reader yields one more row and the loop body runs on it.
ReadRow ==
    /\ pc = "reading"
    /\ Len(stream) < MaxRows
    /\ \E row \in Rows(Len(stream) + 1) :
         LET st == ProcessRow(Locals, row, NPts) IN
         /\ stream' = Append(stream, row)
         /\ SetLocals(st)
         /\ pc' = CASE st.out = "ok" -> "reading"
                    [] st.out = "caught" -> "stopped"
                    [] OTHER -> "raised"
         /\ errline' = IF st.out = "caught" THEN Len(stream) + 1 ELSE errline
         /\ exc' = IF st.out = "uncaught" THEN "IndexError" ELSE exc
    /\ UNCHANGED <<oe, ret, dats, sp, th0, dists, printed, last>>

\* The loop is over (end of file, or break): final flush, then the result
\* is returned (retAll) or stored in self.dats.
Finish ==
    /\ pc \in {"reading", "stopped"}
    /\ \E retAll \in BOOLEAN :
         /\ SetLocals(FinalFlush(Locals))
         /\ IF retAll
            THEN ret' = Dict(FinalFlush(Locals).angs) /\ dats' = dats
            ELSE ret' = None /\ dats' = Dict(FinalFlush(Locals).angs)
    /\ pc' = "done"
    /\ UNCHANGED <<oe, stream, errline, sp, th0, evalvars>>

Next == Open \/ ReadRow \/ Finish

Spec == Init /\ [][Next]_vars

\* -------------------------------------------------------------- evaluation
\* pts_shape[0] of the measured data files (the default of read_data).
NPtsData == 12

\* get_dats: the loop over d.items().  acc is _retlist, kept sorted by the
\* sort() after every append; two equal positions make sort() compare the
\* point arrays, which raises ValueError.
RECURSIVE SortedInsert(_, _)
SortedInsert(acc, x) ==
    IF acc = <<>> THEN <<x>>
    ELSE IF x[1] < Head(acc)[1] THEN <<x>> \o acc
    ELSE <<Head(acc)>> \o SortedInsert(Tail(acc), x)

RECURSIVE GetDatsLoop(_, _, _)
GetDatsLoop(items, pos, acc) ==
    IF items = <<>>
    THEN [exc |-> "", val |-> [t |-> "list", l |-> acc]]
    ELSE LET p == Head(items)[1].v
             pts == Head(items)[2]
         IN  IF pos.t = "float" /\ pos.v = p
             THEN [exc |-> "", val |-> [t |-> "pair", pos |-> p, pts |-> pts]]
             ELSE IF \E j \in 1..Len(acc) : acc[j][1] = p
             THEN [exc |-> "ValueError", val |-> Unset]
             ELSE GetDatsLoop(Tail(items), pos, SortedInsert(acc, <<p, pts>>))

\* get_dats with a lookup that answers a missing angle or run with an empty
\* list instead of raising.
GetDatsDefault(d, ang, run, pos) ==
    IF d.t = "unset"
    THEN [exc |-> "AttributeError", val |-> Unset]
    ELSE IF ang \notin DOMAIN d.d
    THEN [exc |-> "", val |-> [t |-> "list", l |-> <<>>]]
    ELSE IF run \notin DOMAIN d.d[ang]
    THEN [exc |-> "", val |-> [t |-> "list", l |-> <<>>]]
    ELSE GetDatsLoop(d.d[ang][run], pos, <<>>)

\* get_dats(ang, run, pos) on the dictionary d (self.dats): what it raises
\* and what it returns.
GetDats(d, ang, run, pos) ==
    IF d.t = "unset"
    THEN [exc |-> "AttributeError", val |-> Unset]
    ELSE IF ang \notin DOMAIN d.d
    THEN [exc |-> "NameError", val |-> Unset]
    ELSE IF run \notin DOMAIN d.d[ang]
    THEN [exc |-> "NameError", val |-> Unset]
    ELSE GetDatsLoop(d.d[ang][run], pos, <<>>)

\* The tilt of one position, 90 - atan((z0-z6)/(y6-y0)) in degrees, kept as
\* the two differences.  den = 0 is numpy's inf or nan: a tilt of 0, 180 or nan.
Tilt(pts) == [num |-> pts[0][3] - pts[6][3], den |-> pts[6][2] - pts[0][2]]

Mean(xs) == [f |-> "mean", of |-> xs]

\* set_sag_plane(P0, th0): the plane through P0 with the normal (0,0,1)
\* turned by 90 - th0 about x.
Plane(P0, t) == [t |-> "plane", P0 |-> P0, th0 |-> t]

\* The outcome of a call: the exception it leaves with, the value it
\* returns, the ERROR lines it prints, and self.sp, self.th0, self.dists after it.
Outcome(e, r, pr, s, t, ds) ==
    [exc |-> e, ret |-> r, printed |-> pr, sp |-> s, th0 |-> t, dists |-> ds]

Raise(e, pr, self) == Outcome(e, Unset, pr, self.sp, self.th0, self.dists)

Self == [dats |-> dats, sp |-> sp, th0 |-> th0, dists |-> dists]

\* eval_data_th0s(ang, run, retAll, set_sp).  fp is numpy's floating-point
\* error mode: "warn" makes a division by zero inf or nan, "raise" makes it an
\* exception, which the except clause catches and its last print, dividing
\* again, raises anew.
EvalDataTh0s(self, ang, run, retAll, set_sp, fp) ==
    LET got == GetDats(self.dats, ang, run, None) IN
    IF got.exc # "" THEN Raise(got.exc, {}, self)
    ELSE LET l == got.val.l IN
    IF \E j \in 1..Len(l) : 6 \notin DOMAIN l[j][2]
    THEN Raise("IndexError", {}, self)
    ELSE IF fp = "raise" /\ \E j \in 1..Len(l) : Tilt(l[j][2]).den = 0
    THEN Raise("FloatingPointError", {"ERROR getting measured theta0"}, self)
    ELSE LET th0s == [j \in 1..Len(l) |-> Tilt(l[j][2])]
             P0s == [j \in 1..Len(l) |-> l[j][2][0]]
             r == CASE retAll = "avg" -> [t |-> "avg", of |-> th0s]
                    [] retAll = "True" -> [t |-> "th0s", of |-> th0s]
                    [] OTHER -> None
         IN  IF set_sp
             THEN Outcome("", r, {}, Plane(Mean(P0s), Mean(th0s)), Mean(th0s),
                          self.dists)
             ELSE Outcome("", r, {}, self.sp, self.th0, self.dists)

\* get_sag_plane_dist(P): 0 without a plane, else the distance of P from
\* self.sp, kept as the point it is the distance of.
GetSagPlaneDist(self, P) ==
    IF self.sp.t = "None"
    THEN [printed |-> {"ERROR: sagittal plane not setted yet!"}, val |-> PyInt(0)]
    ELSE [printed |-> {}, val |-> [t |-> "dist", P |-> P]]

\* eval_data_dists that first sets the plane of the slice, as its set_sp
\* parameter announces.
EvalDataDistsSetSp(self, ang, run) ==
    LET t == EvalDataTh0s(self, ang, run, "False", TRUE, "warn") IN
    IF t.exc # "" THEN t
    ELSE LET l == GetDats(self.dats, ang, run, None).val.l
             now == [self EXCEPT !.sp = t.sp, !.th0 = t.th0]
             ds == [t |-> "dists",
                    poss |-> [j \in 1..Len(l) |-> l[j][1]],
                    sp |-> t.sp,
                    dists |-> [ipt \in 0..11 |->
                                 [j \in 1..Len(l) |->
                                    GetSagPlaneDist(now, l[j][2][ipt]).val]]]
         IN  Outcome("", None, {}, t.sp, t.th0, ds)

\* eval_data_dists(ang, run): self.poss and self.dists[0..11]
EvalDataDists(self, ang, run) ==
    LET got == GetDats(self.dats, ang, run, None) IN
    IF got.exc # "" THEN Raise(got.exc, {}, self)
    ELSE LET l == got.val.l
             ds == [t |-> "dists",
                    poss |-> [j \in 1..Len(l) |-> l[j][1]],
                    sp |-> self.sp,
                    dists |-> [ipt \in 0..11 |->
                                 [j \in 1..Len(l) |->
                                    GetSagPlaneDist(self, l[j][2][ipt]).val]]]
             pr == UNION {GetSagPlaneDist(self, l[j][2][0]).printed : j \in 1..Len(l)}
         IN  IF \E j \in 1..Len(l) : 11 \notin DOMAIN l[j][2]
             THEN Raise("IndexError", {}, [self EXCEPT !.dists = Unset])
             ELSE Outcome("", None, pr, self.sp, self.th0, ds)

\* get_meas_rs(ang, run, set_sp): per position the circle through the
\* measured points 0, 3, 5.
GetMeasRs(self, ang, run, set_sp, fp) ==
    LET got == GetDats(self.dats, ang, run, None) IN
    IF got.exc # "" THEN Raise(got.exc, {}, self)
    ELSE LET t == IF set_sp
                  THEN EvalDataTh0s(self, ang, run, "False", TRUE, fp)
                  ELSE Outcome("", None, {}, self.sp, self.th0, self.dists)
             l == got.val.l
         IN  IF t.exc # "" THEN t
             ELSE IF \E j \in 1..Len(l) : 11 \notin DOMAIN l[j][2]
             THEN [t EXCEPT !.exc = "IndexError", !.ret = Unset]
             ELSE [t EXCEPT !.ret =
                     [t |-> "meas_rs",
                      rows |-> [j \in 1..Len(l) |->
                                  [pos |-> l[j][1],
                                   circle |-> <<l[j][2][0], l[j][2][3], l[j][2][5]>>]]]]

\* eval_data_rs(ang, run, set_sp): per position the centre, 12 radii and 10
\* chi angles, each kept as the points it is computed from: "pj" i is point i
\* projected on the plane sp, "pt" i the measured point i, pts the points of
\* the position.  cen is the intersection of the lines (lines[1], lines[2])
\* and (lines[3], lines[4]); rs.of[k] is the distance of its point from cen;
\* chi.of[k] the angle at cen between its two points.
Pj(i) == [k |-> "pj", i |-> i]
Msd(i) == [k |-> "pt", i |-> i]
\* point_on_plane_projection(point, plane) of sloth.math.geometry3D: the
\* exception it leaves with; it cannot project on a plane that is None.
PointOnPlaneProjection(plane) == IF plane.t = "None" THEN "TypeError" ELSE ""

\* RsRow whose chi angles run over every consecutive pair of points.
RsRowChiAcross(pos, pts) ==
    [pos |-> pos,
     cen |-> [pts |-> pts, lines |-> <<Pj(0), Pj(6), Pj(5), Pj(11)>>],
     rs |-> [pts |-> pts, of |-> [idx \in 1..12 |-> Msd(idx - 1)]],
     chi |-> [pts |-> pts,
              of |-> [idx \in 1..10 |-> <<Pj(idx - 1), Pj(idx)>>]]]

\* RsRow whose radii end at the projected points.
RsRowProjectedRadius(pos, pts) ==
    [pos |-> pos,
     cen |-> [pts |-> pts, lines |-> <<Pj(0), Pj(6), Pj(5), Pj(11)>>],
     rs |-> [pts |-> pts, of |-> [idx \in 1..12 |-> Pj(idx - 1)]],
     chi |-> [pts |-> pts,
              of |-> [idx \in 1..5 |-> <<Pj(idx - 1), Pj(idx)>>]
                     \o [idx \in 1..5 |-> <<Pj(idx + 5), Pj(idx + 6)>>]]]

\* The centre, radii and chi angles eval_data_rs computes for one position.
RsRow(pos, pts) ==
    [pos |-> pos,
     cen |-> [pts |-> pts, lines |-> <<Pj(0), Pj(6), Pj(5), Pj(11)>>],
     rs |-> [pts |-> pts, of |-> [idx \in 1..12 |-> Msd(idx - 1)]],
     chi |-> [pts |-> pts,
              of |-> [idx \in 1..5 |-> <<Pj(idx - 1), Pj(idx)>>]
                     \o [idx \in 1..5 |-> <<Pj(idx + 5), Pj(idx + 6)>>]]]

\* RsResult with the positions in the reverse of the order of the rows.
RsResultReversed(plane, l) ==
    LET rows == [j \in 1..Len(l) |-> RsRow(l[j][1], l[j][2])] IN
    [t |-> "rs", sp |-> plane,
     poss |-> [j \in 1..Len(l) |-> rows[Len(l) + 1 - j].pos],
     cens |-> [j \in 1..Len(l) |-> rows[j].cen],
     rss |-> [j \in 1..Len(l) |-> rows[j].rs],
     chis |-> [j \in 1..Len(l) |-> rows[j].chi]]

\* The four arrays eval_data_rs returns for the list l of get_dats, with the
\* plane sp they were computed on.
RsResult(plane, l) ==
    LET rows == [j \in 1..Len(l) |-> RsRow(l[j][1], l[j][2])] IN
    [t |-> "rs", sp |-> plane,
     poss |-> [j \in 1..Len(l) |-> rows[j].pos],
     cens |-> [j \in 1..Len(l) |-> rows[j].cen],
     rss |-> [j \in 1..Len(l) |-> rows[j].rs],
     chis |-> [j \in 1..Len(l) |-> rows[j].chi]]

\* eval_data_rs that runs the estimator only while no plane is set.
EvalDataRsKeepPlane(self, ang, run, set_sp, fp) ==
    LET t == IF set_sp /\ self.sp.t = "None"
             THEN EvalDataTh0s(self, ang, run, "False", TRUE, fp)
             ELSE Outcome("", None, {}, self.sp, self.th0, self.dists)
    IN  IF t.exc # "" THEN t
        ELSE LET got == GetDats(self.dats, ang, run, None) IN
        IF got.exc # "" THEN Raise(got.exc, {}, self)
        ELSE LET l == got.val.l IN
        IF l # <<>> /\ PointOnPlaneProjection(t.sp) # ""
        THEN [t EXCEPT !.exc = PointOnPlaneProjection(t.sp), !.ret = Unset]
        ELSE IF \E j \in 1..Len(l) : 11 \notin DOMAIN l[j][2]
        THEN [t EXCEPT !.exc = "IndexError", !.ret = Unset]
        ELSE [t EXCEPT !.ret = RsResult(t.sp, l)]

EvalDataRs(self, ang, run, set_sp, fp) ==
    LET t == IF set_sp
             THEN EvalDataTh0s(self, ang, run, "False", TRUE, fp)
             ELSE Outcome("", None, {}, self.sp, self.th0, self.dists)
    IN  IF t.exc # "" THEN t
        ELSE LET got == GetDats(self.dats, ang, run, None) IN
        IF got.exc # "" THEN Raise(got.exc, {}, self)
        ELSE LET l == got.val.l IN
        IF l # <<>> /\ PointOnPlaneProjection(t.sp) # ""
        THEN [t EXCEPT !.exc = PointOnPlaneProjection(t.sp), !.ret = Unset]
        ELSE IF \E j \in 1..Len(l) : 11 \notin DOMAIN l[j][2]
        THEN [t EXCEPT !.exc = "IndexError", !.ret = Unset]
        ELSE [t EXCEPT !.ret = RsResult(t.sp, l)]

\* ------------------------------------------------------- measured streams
\* Where point 0 and point 6 of a group lie: "tilt" has y6 - y0 = 1 and
\* z0 - z6 = 1 (45 degrees), "vert" has y6 = y0, "same" has also z6 = z0.
Shapes == {"tilt", "vert", "same"}

\* Point i of group g: x names the group and the point.
ShapePoint(g, i, s) ==
    <<100 * g + i,
      IF i = 0 THEN 0 ELSE IF i = 6 THEN (IF s = "tilt" THEN 1 ELSE 0) ELSE i,
      IF i = 6 THEN 0 ELSE IF i = 0 THEN (IF s = "same" THEN 0 ELSE 1) ELSE i>>

\* The 12 rows of a complete group at the position written p.
GroupRows(g, a, r, p, s) ==
    [i \in 1..NPtsData |->
        <<I(0), I(a), I(r), p, I(i - 1),
          F(ShapePoint(g, i - 1, s)[1]),
          F(ShapePoint(g, i - 1, s)[2]),
          F(ShapePoint(g, i - 1, s)[3])>>]

\* Files of one or two complete groups: the first at angle 0, run 0 and the
\* largest position, the second anywhere; and the file of one run with a
\* group at position -0.0 and a group at position 0.0.
DataStreams ==
    LET G1 == {GroupRows(1, 0, 0, F(MaxPos), s) : s \in Shapes}
        G2 == {GroupRows(2, a, r, F(p), "tilt") :
                  a \in 0..MaxAng, r \in 0..MaxRun, p \in 0..MaxPos}
    IN  G1 \cup {g1 \o g2 : g1 \in G1, g2 \in G2}
           \cup {GroupRows(1, 0, 0, NegZero, "tilt")
                   \o GroupRows(2, 0, 0, F(0), "tilt")}

\* The points of a group of a file with the actuator's point: 0..5 front,
\* 6..11 back, 12 actuator.
NPtsWide == 13

\* The file of one complete 13-point group, read with pts_shape=(13,3).
WideStreams ==
    {[i \in 1..NPtsWide |->
        <<I(0), I(0), I(0), F(MaxPos), I(i - 1),
          F(ShapePoint(1, i - 1, "tilt")[1]),
          F(ShapePoint(1, i - 1, "tilt")[2]),
          F(ShapePoint(1, i - 1, "tilt")[3])>>]}

\* The pts_shape[0] a file is read with.
PtsShape(s) == IF s \in WideStreams THEN NPtsWide ELSE NPtsData

\* numpy's modes for a floating-point division by zero: the default warns
\* and gives inf or nan, np.seterr(all='raise') raises FloatingPointError.
FpModes == {"warn", "raise"}

\* The point and plane arguments of the direct calls.
ProbePoint == <<1, 2, 3>>
ProbePlane == Plane([f |-> "point", at |-> <<0, 0, 0>>], [f |-> "deg", val |-> 35])

Called(o, name, a, r, flag) ==
    /\ exc' = o.exc
    /\ ret' = o.ret
    /\ printed' = o.printed
    /\ sp' = o.sp
    /\ th0' = o.th0
    /\ dists' = o.dists
    /\ last' = [op |-> name, ang |-> a, run |-> r, set_sp |-> flag,
                nosp |-> sp.t = "None"]
    /\ UNCHANGED <<oe, pc, stream, _pts, _apos, _runs, _bpos, _ptx, _rnx,
                   _angx, _frun, angs, errline, dats>>

\* The dictionary read_data builds from each file.
ParsedData ==
    [s \in DataStreams \cup WideStreams |-> ParseStream(s, PtsShape(s))]

\* The files read with retAll=True: those of a single group.
ReturnedStreams == {s \in DataStreams : Len(s) = NPtsData}

\* read_data that stores the dictionary whatever retAll is.
LoadDataAlwaysStore ==
    \E retAll \in BOOLEAN :
        \E s \in (IF retAll THEN ReturnedStreams
                           ELSE DataStreams \cup WideStreams) :
            /\ retAll \/ pc = "idle"
            /\ ret' = (IF retAll THEN Dict(ParsedData[s]) ELSE None)
            /\ dats' = Dict(ParsedData[s])
            /\ pc' = (IF retAll THEN pc ELSE "done")
            /\ exc' = ""
            /\ printed' = {}
            /\ last' = [op |-> "read_data", ang |-> 0, run |-> 0, set_sp |-> FALSE,
                        nosp |-> sp.t = "None", retAll |-> retAll, file |-> s]
            /\ UNCHANGED <<oe, stream, _pts, _apos, _runs, _bpos, _ptx, _rnx, _angx,
                           _frun, angs, errline, sp, th0, dists>>

\* read_data(fname, pts_shape, retAll) on a file of 12-point or 13-point
\* groups, from the first row to the return; its locals are gone when it
\* returns.  One file is stored per session, any number is read with
\* retAll=True.
LoadData ==
    \E retAll \in BOOLEAN :
        \E s \in (IF retAll THEN ReturnedStreams
                           ELSE DataStreams \cup WideStreams) :
            /\ retAll \/ pc = "idle"
            /\ IF retAll
               THEN ret' = Dict(ParsedData[s]) /\ dats' = dats /\ pc' = pc
               ELSE ret' = None /\ dats' = Dict(ParsedData[s]) /\ pc' = "done"
            /\ exc' = ""
            /\ printed' = {}
            /\ last' = [op |-> "read_data", ang |-> 0, run |-> 0, set_sp |-> FALSE,
                        nosp |-> sp.t = "None", retAll |-> retAll, file |-> s]
            /\ UNCHANGED <<oe, stream, _pts, _apos, _runs, _bpos, _ptx, _rnx, _angx,
                           _frun, angs, errline, sp, th0, dists>>

SetSagPlaneCall ==
    /\ sp.t = "None"
    /\ Called(Outcome("", None, {}, ProbePlane, ProbePlane.th0, dists),
              "set_sag_plane", 0, 0, TRUE)

\* The pos argument of get_dats: the default None, or an actuator position.
PosArgs == {None} \cup {PyFloat(p) : p \in 0..MaxPos}

GetDatsCall ==
    \E a \in 0..MaxAng, r \in 0..MaxRun, pos \in PosArgs :
        LET got == GetDats(dats, a, r, pos) IN
        /\ exc' = got.exc
        /\ ret' = got.val
        /\ printed' = {}
        /\ last' = [op |-> "get_dats", ang |-> a, run |-> r, set_sp |-> FALSE,
                    nosp |-> sp.t = "None", pos |-> pos]
        /\ UNCHANGED <<oe, pc, stream, _pts, _apos, _runs, _bpos, _ptx, _rnx,
                       _angx, _frun, angs, errline, dats, sp, th0, dists>>

EvalDataTh0sCall ==
    \E a \in 0..MaxAng, r \in 0..MaxRun, flag \in BOOLEAN, retAll \in {"False", "avg"} :
        \E o \in {EvalDataTh0s(Self, a, r, retAll, flag, fp) : fp \in FpModes} :
            Called(o, "eval_data_th0s", a, r, flag)

GetSagPlaneDistCall ==
    LET got == GetSagPlaneDist(Self, ProbePoint) IN
    Called(Outcome("", got.val, got.printed, sp, th0, dists),
           "get_sag_plane_dist", 0, 0, FALSE)

EvalDataDistsCall ==
    \E a \in 0..MaxAng, r \in 0..MaxRun :
        Called(EvalDataDists(Self, a, r), "eval_data_dists", a, r, FALSE)

GetMeasRsCall ==
    \E a \in 0..MaxAng, r \in 0..MaxRun, flag \in BOOLEAN :
        \E o \in {GetMeasRs(Self, a, r, flag, fp) : fp \in FpModes} :
            Called(o, "get_meas_rs", a, r, flag)

EvalDataRsCall ==
    \E a \in 0..MaxAng, r \in 0..MaxRun, flag \in BOOLEAN :
        \E o \in {EvalDataRs(Self, a, r, flag, fp) : fp \in FpModes} :
            Called(o, "eval_data_rs", a, r, flag)

NextEval ==
    \/ LoadData
    \/ SetSagPlaneCall
    \/ GetDatsCall
    \/ EvalDataTh0sCall
    \/ GetSagPlaneDistCall
    \/ EvalDataDistsCall
    \/ GetMeasRsCall
    \/ EvalDataRsCall

\* One session: a file of 12-point groups is read, then evaluated.
SpecEval == Init /\ [][NextEval]_vars

\* ---------------------------------------------------------------- geometry
\* The largest coordinate of the points the geometry calls are made on.
MaxCoord == 1

\* A float computed from integers: the quotient num / den, or what numpy
\* makes of a division by zero.
Fin(num, den) == [k |-> "fin", num |-> num, den |-> den]
Inf == [k |-> "inf"]
NaN == [k |-> "nan"]

\* One component of get_intersect_lines:
\*   t = (p20 - p10) / (p11 - p10 - p21 + p20);  p10 + t * (p11 - p10)
\* on arrays, so component by component.
IntersectComponent(a10, a11, a20, a21) ==
    LET num == a20 - a10
        den == a11 - a10 - a21 + a20
        d1 == a11 - a10
    IN  IF den # 0 THEN Fin(a10 * den + num * d1, den)
        ELSE IF num = 0 \/ d1 = 0 THEN NaN
        ELSE Inf

\* get_intersect_lines(p10, p11, p20, p21); fp is numpy's error mode.
GetIntersectLines(p10, p11, p20, p21, fp) ==
    IF fp = "raise" /\ \E k \in 1..3 : p11[k] - p10[k] - p21[k] + p20[k] = 0
    THEN [exc |-> "FloatingPointError", val |-> Unset]
    ELSE [exc |-> "",
          val |-> [t |-> "point",
                   c |-> [k \in 1..3 |->
                            IntersectComponent(p10[k], p11[k], p20[k], p21[k])]]]

\* Directions of lines, and the multiples of its direction at which the two
\* points of a line lie from the point the lines share.
Dirs == {d \in [1..3 -> 0..MaxCoord] : d # <<0, 0, 0>>}
Steps == {0 - 1, 1, 2}
Parallel(u, v) ==
    /\ u[1] * v[2] = u[2] * v[1]
    /\ u[1] * v[3] = u[3] * v[1]
    /\ u[2] * v[3] = u[3] * v[2]
OnLine(X, d, a) == [k \in 1..3 |-> X[k] + a * d[k]]

\* get_intersect_lines is called, on the object as constructed, on two
\* lines through X.
GetIntersectLinesCall ==
    \E X \in {<<0, 0, 0>>, <<1, 2, 3>>}, d1 \in Dirs, d2 \in Dirs,
       a1 \in Steps, b1 \in Steps, a2 \in Steps, b2 \in Steps,
       fp \in FpModes :
        /\ last.op = "__init__"
        /\ ~Parallel(d1, d2)
        /\ a1 # b1 /\ a2 # b2
        /\ LET got == GetIntersectLines(OnLine(X, d1, a1), OnLine(X, d1, b1),
                                        OnLine(X, d2, a2), OnLine(X, d2, b2), fp)
           IN  /\ exc' = got.exc
               /\ ret' = got.val
               /\ last' = [op |-> "get_intersect_lines", ang |-> 0, run |-> 0,
                           set_sp |-> FALSE, nosp |-> sp.t = "None",
                           args |-> <<OnLine(X, d1, a1), OnLine(X, d1, b1),
                                      OnLine(X, d2, a2), OnLine(X, d2, b2)>>,
                           X |-> X]
        /\ printed' = {}
        /\ UNCHANGED <<oe, pc, stream, _pts, _apos, _runs, _bpos, _ptx, _rnx,
                       _angx, _frun, angs, errline, dats, sp, th0, dists>>

\* The module's epsilon, 1e-10.  The coordinates of the points and the
\* offsets D of the planes given to test_point_on_plane are counted in
\* units of 1e-10, the normals of the planes are plain numbers, so that a
\* signed distance is a whole number of epsilons.
epsilon == 1

\* point.dot(plane[:3]) + plane[3]
SignedDist(point, plane) ==
    point[1] * plane[1] + point[2] * plane[2] + point[3] * plane[3] + plane[4]

\* test_point_on_plane(point, plane): the line it prints.
TestPointOnPlane(point, plane) ==
    IF SignedDist(point, plane) <= epsilon
    THEN "OK => point on plane"
    ELSE "NO => point not on plane"

\* The planes and the points of the calls: the plane z + D = 0 and the plane
\* x + z + D = 0; points on both sides of them, up to MaxCoord + 2 away.
TestPlanes ==
    {<<a, 0, 1, D>> : a \in 0..1, D \in (0 - MaxCoord)..MaxCoord}
TestPoints ==
    {<<x, y, z>> : x \in 0..MaxCoord, y \in 0..MaxCoord,
                   z \in (0 - MaxCoord - 1)..(MaxCoord + 1)}

\* test_point_on_plane is called on the object as constructed.
TestPointOnPlaneCall ==
    \E point \in TestPoints, plane \in TestPlanes :
        /\ last.op = "__init__"
        /\ exc' = ""
        /\ ret' = None
        /\ printed' = {TestPointOnPlane(point, plane)}
        /\ last' = [op |-> "test_point_on_plane", ang |-> 0, run |-> 0,
                    set_sp |-> FALSE, nosp |-> sp.t = "None",
                    point |-> point, plane |-> plane]
        /\ UNCHANGED <<oe, pc, stream, _pts, _apos, _runs, _bpos, _ptx, _rnx,
                       _angx, _frun, angs, errline, dats, sp, th0, dists>>

NextGeom == GetIntersectLinesCall \/ TestPointOnPlaneCall

\* The geometry helpers, called on their own.
SpecGeom == Init /\ [][NextGeom]_vars

\* ---------------------------------------------------------- plane crystal
\* The seed set_mosaic uses by default.
MosaicSeed == 4732093

\* set_auto_tuning(f_phot_cent, phot_cent, r_lambda) on the element e.
SetAutoTuning(e, f_phot_cent, phot_cent, r_lambda) ==
    [e EXCEPT !.F_CENTRAL = 1, !.F_PHOT_CENT = f_phot_cent,
              !.PHOT_CENT = phot_cent, !.R_LAMBDA = r_lambda]

\* set_mosaic(mosaic_seed, spread_mos, thickness).
SetMosaic(e, mosaic_seed, spread_mos, thickness) ==
    [e EXCEPT !.F_MOSAIC = 1, !.MOSAIC_SEED = mosaic_seed,
              !.SPREAD_MOS = spread_mos, !.THICKNESS = thickness,
              !.F_BRAGG_A = 0, !.F_JOHANSSON = 0]

\* set_asymmetric_cut(a_bragg, thickness, order).
SetAsymmetricCut(e, a_bragg, thickness, order) ==
    [e EXCEPT !.F_BRAGG_A = 1, !.F_MOSAIC = 0, !.A_BRAGG = a_bragg,
              !.THICKNESS = thickness, !.ORDER = order]

\* set_johansson that leaves the mosaic flag as it is.
SetJohanssonKeepMosaic(e, r_johansson) ==
    [e EXCEPT !.F_JOHANSSON = 1, !.F_EXT = 1, !.R_JOHANSSON = r_johansson]

\* set_johansson(r_johansson).
SetJohansson(e, r_johansson) ==
    [e EXCEPT !.F_JOHANSSON = 1, !.F_EXT = 1, !.R_JOHANSSON = r_johansson,
              !.F_MOSAIC = 0]

\* set_crystal(file_refl, a_bragg, thickness, tune_auto, tune_units, tune_ev,
\* tune_ang): the asymmetric cut only for a_bragg # 0, with the default order.
SetCrystal(e, file_refl, a_bragg, thickness, tune_auto, tune_units, tune_ev, tune_ang) ==
    LET e1 == [e EXCEPT !.F_CRYSTAL = 1, !.FILE_REFL = file_refl]
        e2 == IF a_bragg # 0 THEN SetAsymmetricCut(e1, a_bragg, thickness, 0 - 1)
                             ELSE e1
    IN  IF tune_auto = 0
        THEN [e2 EXCEPT !.F_CENTRAL = 0]
        ELSE SetAutoTuning(e2, tune_units, tune_ev, tune_ang)

Flags == {0, 1}
Orders == {0 - 1, 1}
noncrystal == <<pc, stream, _pts, _apos, _runs, _bpos, _ptx, _rnx, _angx, _frun,
                angs, errline, ret, dats, sp, th0, dists, exc, printed, last>>

SetCrystalCall ==
    /\ \E a_bragg \in 0..MaxPar, thickness \in 1..MaxPar, tune_auto \in Flags,
          tune_units \in Flags :
          oe' = SetCrystal(oe, "refl", a_bragg, thickness, tune_auto, tune_units,
                           0, 0)
    /\ UNCHANGED noncrystal

SetMosaicCall ==
    /\ \E spread_mos \in 0..MaxPar, thickness \in 1..MaxPar :
          oe' = SetMosaic(oe, MosaicSeed, spread_mos, thickness)
    /\ UNCHANGED noncrystal

SetAsymmetricCutCall ==
    /\ \E a_bragg \in 0..MaxPar, thickness \in 1..MaxPar, order \in Orders :
          oe' = SetAsymmetricCut(oe, a_bragg, thickness, order)
    /\ UNCHANGED noncrystal

SetJohanssonCall ==
    /\ \E r_johansson \in 1..MaxPar : oe' = SetJohansson(oe, r_johansson)
    /\ UNCHANGED noncrystal

NextCrystal ==
    SetCrystalCall \/ SetMosaicCall \/ SetAsymmetricCutCall \/ SetJohanssonCall

\* The setters of a PlaneCrystal, called in any order.
SpecCrystal == Init /\ [][NextCrystal]_vars

\* ------------------------------------------------- reading the stream back
\* What the call delivered: the returned dictionary, or self.dats.
Result == IF ret.t = "None" THEN dats.d ELSE ret.d

Ang(row) == row[2].v
Run(row) == row[3].v
Pos(row) == row[4].v
Pt(row) == row[5].v

\* A well-formed data row: 8 numeric fields, point index in 0..N-1.
IsGood(row) ==
    /\ Len(row) = 8
    /\ row[1].k \notin {"emp", "cmt"}
    /\ HeadOk(row)
    /\ Last3Ok(row)
    /\ Pt(row) \in 0..(NPts - 1)

AllGood(s) == \A j \in 1..Len(s) : IsGood(s[j])

NGroups(s) == Len(s) \div NPts
GroupRow(s, g, i) == s[(g - 1) * NPts + i + 1]
GroupKey(s, g) ==
    <<Ang(GroupRow(s, g, 0)), Run(GroupRow(s, g, 0)), Pos(GroupRow(s, g, 0))>>

\* Rows grouped by angle, then run, then position; each position group
\* carries the point indices 0..N-1 in order.
WellFormed(s) ==
    /\ Len(s) > 0
    /\ AllGood(s)
    /\ Len(s) % NPts = 0
    /\ \A g \in 1..NGroups(s) : \A i \in 0..(NPts - 1) :
         /\ Pt(GroupRow(s, g, i)) = i
         /\ Ang(GroupRow(s, g, i)) = GroupKey(s, g)[1]
         /\ Run(GroupRow(s, g, i)) = GroupKey(s, g)[2]
         /\ Pos(GroupRow(s, g, i)) = GroupKey(s, g)[3]
    /\ \A g1, g2 \in 1..NGroups(s) : g1 < g2 => GroupKey(s, g1) # GroupKey(s, g2)
    /\ \A g1, g2, g3 \in 1..NGroups(s) :
         g1 < g2 /\ g2 < g3 =>
           /\ GroupKey(s, g1)[1] = GroupKey(s, g3)[1]
                => GroupKey(s, g2)[1] = GroupKey(s, g1)[1]
           /\ ( /\ GroupKey(s, g1)[1] = GroupKey(s, g3)[1]
                /\ GroupKey(s, g1)[2] = GroupKey(s, g3)[2] )
                => GroupKey(s, g2)[2] = GroupKey(s, g1)[2]

\* The points of group g of a well-formed stream.
GroupPoints(s, g) == [i \in 0..(NPts - 1) |-> Coords(GroupRow(s, g, i))]

\* Dictionary d holds exactly the groups of the well-formed stream s.
Matches(d, s) ==
    LET G == 1..NGroups(s) IN
    /\ DOMAIN d = {GroupKey(s, g)[1] : g \in G}
    /\ \A a \in DOMAIN d :
         /\ DOMAIN d[a] = {GroupKey(s, g)[2] : g \in {h \in G : GroupKey(s, h)[1] = a}}
         /\ \A r \in DOMAIN d[a] :
              LET here == {g \in G : GroupKey(s, g)[1] = a /\ GroupKey(s, g)[2] = r} IN
              /\ Len(d[a][r]) = Cardinality(here)
              /\ Keys(d[a][r]) = {F(GroupKey(s, g)[3]) : g \in here}
              /\ \A g \in here :
                   OGet(d[a][r], F(GroupKey(s, g)[3])) = GroupPoints(s, g)

\* C1: reading a well-formed stream gives back exactly its angles, runs,
\* position groups and points: nothing missing, duplicated or added.
C1_RoundTrip ==
    (pc = "done" /\ WellFormed(stream)) => Matches(Result, stream)

Front(s) == SubSeq(s, 1, Len(s) - 1)

\* C2: a malformed row after a well-formed prefix P that ends with a
\* complete group leaves the result exactly the one of P alone.  Stated for
\* the malformed rows the parser does stop at (it printed their line).
C2_MalformedKeepsData ==
    ( /\ pc = "done"
      /\ Len(stream) > 1
      /\ errline = Len(stream)
      /\ WellFormed(Front(stream)) )
    => Result = ParseStream(Front(stream), NPts)

IsComment(row) == Len(row) > 0 /\ row[1].k = "cmt"

\* A non-comment row with a non-numeric field, or without exactly 8 fields.
BadFieldsOrCount(row) ==
    /\ ~IsComment(row)
    /\ \/ Len(row) # 8
       \/ \E j \in 1..Len(row) : ~FloatOk(row[j])

\* C3: reading stops at the first row with a non-numeric field or a wrong
\* field count: no row is read after it and it leaves no coordinates in the
\* point buffer.
C3_StopsAtFirstMalformed ==
    \A j \in 1..Len(stream) :
        BadFieldsOrCount(stream[j]) =>
            /\ j = Len(stream)
            /\ (Len(stream[j]) >= 3 /\ Coords(stream[j]) # <<0, 0, 0>>) =>
                 \A i \in DOMAIN _pts : _pts[i] # Coords(stream[j])

\* C4: no row makes read_data raise.
C4_NeverRaises == pc # "raised"

\* C5: a result truncated at a malformed row differs from the result of the
\* clean stream made of the rows before it.
C5_TruncationSurfaced ==
    (pc = "done" /\ errline # 0)
    => Result # ParseStream(Front(stream), NPts)

\* Dictionary d has, under angle a, run r and a key whose number is p, a
\* record whose point i is c.
HasPoint(d, a, r, p, i, c) ==
    /\ a \in DOMAIN d
    /\ r \in DOMAIN d[a]
    /\ \E j \in 1..Len(d[a][r]) :
         d[a][r][j][1].v = p /\ d[a][r][j][2][i] = c

\* C6: after a stream of valid data rows the coordinates of the last row are
\* in the result under that row's angle, run and actuator position, whether
\* or not its group was completed.
C6_LastGroupKept ==
    (pc = "done" /\ Len(stream) > 0 /\ AllGood(stream))
    => LET r == stream[Len(stream)]
       IN  HasPoint(Result, Ang(r), Run(r), Pos(r), Pt(r), Coords(r))

\* Every record of dictionary d has n points of three coordinates.
FixedLength(d, n) ==
    \A a \in DOMAIN d : \A r \in DOMAIN d[a] : \A j \in 1..Len(d[a][r]) :
        LET p == d[a][r][j][2] IN
        /\ DOMAIN p = 0..(n - 1)
        /\ \A i \in DOMAIN p : Len(p[i]) = 3

\* C7: after read_data on any stream every record of the result has exactly
\* pts_shape[0] points, each of three coordinates.
C7_FixedLength == pc = "done" => FixedLength(Result, NPts)

\* A truncated stream whose result holds a flushed group and the pending one.
C7_Witness ==
    /\ pc = "done"
    /\ errline = Len(stream)
    /\ \E a \in DOMAIN Result : \E r \in DOMAIN Result[a] :
         /\ Len(Result[a][r]) = 2
         /\ \A j \in 1..2 : \E i \in 0..(NPts - 1) :
              Result[a][r][j][2][i] # <<0, 0, 0>>


\* ------------------------------------------------- claims on the evaluation
\* The angle or the run of the last call is not a key of self.dats.
Absent(a, r) ==
    /\ dats.t = "dict"
    /\ (a \notin DOMAIN dats.d \/ r \notin DOMAIN dats.d[a])

LookupOps ==
    {"get_dats", "eval_data_th0s", "eval_data_dists", "get_meas_rs", "eval_data_rs"}

\* C8: get_dats and every evaluation going through it (eval_data_th0s,
\* eval_data_dists, get_meas_rs, eval_data_rs) leaves with an exception and
\* without a result when the angle or the run is not a key of the Dataset.
C8_LookupError ==
    (last.op \in LookupOps /\ Absent(last.ang, last.run))
        => (exc = "NameError" /\ ret = Unset)

\* eval_data_rs(ang, run, set_sp=True) was called for an absent key of a
\* loaded Dataset and left with the lookup's exception.
C8_Witness ==
    /\ last.op = "eval_data_rs"
    /\ last.set_sp
    /\ Absent(last.ang, last.run)
    /\ exc = "NameError"

\* The last call uses the sagittal plane without setting it first.
UsesPlane ==
    \/ last.op \in {"get_sag_plane_dist", "eval_data_dists"}
    \/ (last.op = "eval_data_rs" /\ ~last.set_sp)

\* C9: an evaluation that uses the sagittal plane while self.sp is None
\* (get_sag_plane_dist, eval_data_dists, eval_data_rs with set_sp=False)
\* leaves with an exception and returns no numeric result.
C9_PlaneNotConfigured ==
    (last.nosp /\ UsesPlane) => (exc # "" /\ ret = Unset)

\* Some position of the slice (a, r) of self.dats has y6 = y0.
VerticalSlice(a, r) ==
    /\ dats.t = "dict"
    /\ a \in DOMAIN dats.d
    /\ r \in DOMAIN dats.d[a]
    /\ \E j \in 1..Len(dats.d[a][r]) : Tilt(dats.d[a][r][j][2]).den = 0

\* C10: eval_data_th0s on a slice with a position where y6 = y0 prints its
\* error and returns the sentinel 0: no exception reaches the caller, and
\* self.sp and self.th0 stay as they were.
C10_VerticalChord ==
    [][(last'.op = "eval_data_th0s" /\ VerticalSlice(last'.ang, last'.run))
          => /\ exc' = ""
             /\ ret' = PyInt(0)
             /\ "ERROR getting measured theta0" \in printed'
             /\ sp' = sp
             /\ th0' = th0]_vars


\* The object with the loaded data and no evaluation made on it yet.
FreshSelf == [dats |-> dats, sp |-> None, th0 |-> Unset, dists |-> Unset]

\* C11: what eval_data_rs(ang, run) returns (set_sp at its default True)
\* depends only on the slice (ang, run) of the Dataset: after any history of
\* earlier calls the outcome is the one the same call has on the freshly
\* loaded object.
C11_Independence ==
    (last.op = "eval_data_rs" /\ last.set_sp)
        => \E fp \in FpModes :
              LET o == EvalDataRs(FreshSelf, last.ang, last.run, TRUE, fp)
              IN  exc = o.exc /\ ret = o.ret

\* eval_data_rs(ang, run) returned its arrays after an earlier
\* eval_data_dists had run on another plane than the one of this slice.
C11_Witness ==
    /\ last.op = "eval_data_rs"
    /\ last.set_sp
    /\ ~last.nosp
    /\ exc = ""
    /\ Len(ret.poss) > 0
    /\ dists.t = "dists"
    /\ dists.sp.t = "plane"
    /\ dists.sp # ret.sp

\* C12: eval_data_rs returns four sequences of one length, the number of
\* positions of the slice, and the i-th centre, radii and chi angles are
\* computed from the points of the position that is the i-th of positions.
C12_Aligned ==
    (last.op = "eval_data_rs" /\ exc = "")
        => LET s == dats.d[last.ang][last.run] IN
           /\ Len(ret.poss) = Len(s)
           /\ Len(ret.cens) = Len(s)
           /\ Len(ret.rss) = Len(s)
           /\ Len(ret.chis) = Len(s)
           /\ \A i \in 1..Len(s) :
                 \E j \in 1..Len(s) :
                    /\ s[j][1].v = ret.poss[i]
                    /\ ret.cens[i].pts = s[j][2]
                    /\ ret.rss[i].pts = s[j][2]
                    /\ ret.chis[i].pts = s[j][2]

\* eval_data_rs returned the arrays of a slice of two positions.
C12_Witness ==
    /\ last.op = "eval_data_rs"
    /\ exc = ""
    /\ Len(ret.poss) = 2
    /\ ret.poss[1] # ret.poss[2]


\* The float x is the integer n.
IsInt(x, n) == x.k = "fin" /\ x.num = n * x.den

\* C13: for two non-parallel lines through X, each given by two of its
\* points, get_intersect_lines returns X.
C13_LineIntersection ==
    last.op = "get_intersect_lines"
        => /\ exc = ""
           /\ \A k \in 1..3 : IsInt(ret.c[k], last.X[k])


\* The call l does not ask for the plane to be set.
InspectionOnly(l) ==
    \/ l.op \in {"read_data", "get_dats", "eval_data_dists", "get_sag_plane_dist"}
    \/ (l.op \in {"eval_data_th0s", "get_meas_rs", "eval_data_rs"} /\ ~l.set_sp)

NotComment(row) == ~IsComment(row)
StripComments(s) == SelectSeq(s, NotComment)

\* C15: a comment row changes no parser state: at every point of the
\* reading the locals are those the stream without its comment rows leads
\* to, and so is the Dataset delivered.
C15_CommentsSkipped ==
    LET st == RunRows(InitLocals(NPts), StripComments(stream), NPts)
        fin == IF pc = "done" THEN FinalFlush(st) ELSE st
    IN  /\ Locals = [fin EXCEPT !.out = "ok"]
        /\ pc = "done" => Result = fin.angs

\* A stream with a comment row between two data rows was read to its end.
C15_Witness ==
    /\ pc = "done"
    /\ Len(stream) >= 3
    /\ IsGood(stream[1])
    /\ IsComment(stream[2])
    /\ IsGood(stream[3])


\* C16: read_data with retAll=False stores the parsed Dataset in self.dats
\* and returns nothing; with retAll=True it returns the Dataset and leaves
\* self.dats as it was, unset or holding an earlier Dataset.
C16_Delivery ==
    [][last'.op = "read_data"
         => IF last'.retAll
            THEN /\ ret' = Dict(ParseStream(last'.file, PtsShape(last'.file)))
                 /\ dats' = dats
            ELSE /\ ret' = None
                 /\ dats' = Dict(ParseStream(last'.file, PtsShape(last'.file)))]_vars

\* read_data(retAll=True) returned another Dataset than the one self.dats
\* holds from an earlier read_data.
C16_Witness ==
    /\ last.op = "read_data"
    /\ last.retAll
    /\ dats.t = "dict"
    /\ ret.t = "dict"
    /\ ret # dats


\* The row read by this step, when the step reads one.
ReadsRow == stream' # stream
NewRow == stream'[Len(stream')]

\* The row passes the four conversions at the head of the try block.
IsData(row) == Len(row) > 0 /\ row[1].k \notin {"emp", "cmt"} /\ HeadOk(row)
\* The row is processed to the end of the loop body.
IsStored(row) == IsData(row) /\ Last3Ok(row) /\ IndexOk(Pt(row), NPts)

\* The coordinates c are in a record of the position map, the run map, the
\* angle map.
InApos(od, c) == \E j \in 1..Len(od) : \E i \in DOMAIN od[j][2] : od[j][2][i] = c
InRuns(rn, c) == \E r \in DOMAIN rn : InApos(rn[r], c)
InAngs(ag, c) == \E a \in DOMAIN ag : InRuns(ag[a], c)
RowCoords == {<<k, k, k>> : k \in 1..MaxRows}

\* The map that holds, after the step, the position map the row was
\* processed on.
HolderAfter(row) ==
    IF ~IsStored(row) THEN _apos'
    ELSE IF Ang(row) # _angx THEN angs'[_angx][_rnx]
    ELSE IF Run(row) # _rnx THEN _runs'[_rnx]
    ELSE _apos'

\* C17: right after the row with point index N-1 its group is marked
\* complete with the row's actuator position and is in no map yet; a group
\* enters the maps only on a step that starts with a completed group (or at
\* the final flush); that step stores the buffer under the remembered
\* position and writes the new row's point into a buffer of zeros.
C17_FlushOnNextRow ==
    [][/\ (ReadsRow /\ IsStored(NewRow) /\ Pt(NewRow) = NPts - 1)
            => /\ _ptx'
               /\ _bpos' = PyFloat(Pos(NewRow))
               /\ ~InApos(_apos', Coords(NewRow))
               /\ ~InRuns(_runs', Coords(NewRow))
               /\ ~InAngs(angs', Coords(NewRow))
       /\ (ReadsRow /\ ~_ptx)
            => \A c \in RowCoords :
                  /\ InApos(_apos', c) => InApos(_apos, c)
                  /\ InRuns(_runs', c) => (InRuns(_runs, c) \/ InApos(_apos, c))
                  /\ InAngs(angs', c)
                        => (InAngs(angs, c) \/ InRuns(_runs, c) \/ InApos(_apos, c))
       /\ (ReadsRow /\ _ptx /\ IsData(NewRow))
            => /\ PyStr(_bpos) \in Keys(HolderAfter(NewRow))
               /\ OGet(HolderAfter(NewRow), PyStr(_bpos)) = _pts
               /\ _pts' = IF IsStored(NewRow)
                           THEN [Zeros(NPts) EXCEPT ![Index(Pt(NewRow), NPts)] =
                                                       Coords(NewRow)]
                           ELSE Zeros(NPts)
       /\ (pc' = "done" /\ pc # "done" /\ _ptx)
            => OGet(_apos', PyStr(_bpos)) = _pts]_vars

\* A group was completed by one row and flushed by the next, which wrote
\* its point into the fresh buffer.
C17_Witness ==
    /\ pc = "reading"
    /\ Len(stream) = NPts + 1
    /\ AllGood(stream)
    /\ Pt(stream[NPts]) = NPts - 1
    /\ ~_ptx
    /\ Len(_apos) = 1
    /\ _apos[1][1] = PyStr(PyFloat(Pos(stream[NPts])))
    /\ InApos(_apos, Coords(stream[NPts]))
    /\ _pts[Pt(stream[NPts + 1])] = Coords(stream[NPts + 1])


\* The locals before row j of the stream is read.
Before(j) == RunRows(InitLocals(NPts), SubSeq(stream, 1, j - 1), NPts)

\* Row j changes the run and not the angle.
RunBoundary(j) ==
    /\ IsStored(stream[j])
    /\ Run(stream[j]) # Before(j).rnx
    /\ Ang(stream[j]) = Before(j).angx

\* C18: a row that changes the run and not the angle stores the position
\* map, the position completed by the previous row included, under the old
\* run, starts an empty position map and writes its coordinates into the
\* buffer; at the end of a stream of valid data rows they are in a record of
\* the new run and in none of the old run.
C18_RunBoundary ==
    /\ [][(ReadsRow /\ IsStored(NewRow) /\ Run(NewRow) # _rnx /\ Ang(NewRow) = _angx)
            => /\ _rnx \in DOMAIN _runs'
               /\ _runs'[_rnx] = (IF _ptx THEN OSet(_apos, PyStr(_bpos), _pts)
                                          ELSE _apos)
               /\ ~InApos(_runs'[_rnx], Coords(NewRow))
               /\ _apos' = <<>>
               /\ _rnx' = Run(NewRow)
               /\ _pts'[Index(Pt(NewRow), NPts)] = Coords(NewRow)]_vars
    /\ [](pc = "done" /\ AllGood(stream)
            => \A j \in 1..Len(stream) :
                  RunBoundary(j)
                    => LET d == Result[Ang(stream[j])] IN
                       /\ Run(stream[j]) \in DOMAIN d
                       /\ InApos(d[Run(stream[j])], Coords(stream[j]))
                       /\ Before(j).rnx \in DOMAIN d
                            => ~InApos(d[Before(j).rnx], Coords(stream[j])))


\* The runs of the rows of angle a stored so far.
RunsUnder(a) ==
    {Run(stream[k]) :
        k \in {k \in 1..Len(stream) : IsStored(stream[k]) /\ Ang(stream[k]) = a}}

\* C19: a row that changes the angle, with or without a change of run,
\* leaves the old run's position map with all its positions under (old
\* angle, old run), leaves the old angle's run map without a run no row of
\* the old angle had, and puts its own coordinates under the new angle.
C19_AngleBoundary ==
    [][(ReadsRow /\ IsStored(NewRow) /\ Ang(NewRow) # _angx)
         => /\ _angx \in DOMAIN angs'
            /\ _rnx \in DOMAIN angs'[_angx]
            /\ angs'[_angx][_rnx] = (IF _ptx THEN OSet(_apos, PyStr(_bpos), _pts)
                                             ELSE _apos)
            /\ DOMAIN angs'[_angx] \subseteq RunsUnder(_angx)
            /\ ~InRuns(angs'[_angx], Coords(NewRow))
            /\ _angx' = Ang(NewRow)
            /\ _pts'[Index(Pt(NewRow), NPts)] = Coords(NewRow)]_vars


\* The sequence l is strictly ascending in its first components.
Ascending(l) == \A i \in 1..(Len(l) - 1) : l[i][1] < l[i + 1][1]

\* C20: get_dats(ang, run) on a run of the Dataset returns every position of
\* the run once, as (position, points) pairs in strictly ascending position
\* order whatever the order they were stored in; the positions
\* eval_data_rs returns are in the same order.
C20_ReadOrder ==
    /\ ( /\ last.op = "get_dats"
         /\ last.pos = None
         /\ dats.t = "dict"
         /\ ~Absent(last.ang, last.run) )
         => LET s == dats.d[last.ang][last.run] IN
            /\ exc = ""
            /\ Len(ret.l) = Len(s)
            /\ \A j \in 1..Len(s) :
                  \E i \in 1..Len(ret.l) : ret.l[i] = <<s[j][1].v, s[j][2]>>
            /\ Ascending(ret.l)
    /\ (last.op = "eval_data_rs" /\ exc = "")
         => LET l == GetDats(dats, last.ang, last.run, None).val.l IN
            /\ ret.poss = [i \in 1..Len(l) |-> l[i][1]]
            /\ \A i \in 1..(Len(ret.poss) - 1) : ret.poss[i] < ret.poss[i + 1]

\* The pairs of projected points of the ten chi angles, in order.
ChiPairs ==
    <<<<Pj(0), Pj(1)>>, <<Pj(1), Pj(2)>>, <<Pj(2), Pj(3)>>, <<Pj(3), Pj(4)>>,
      <<Pj(4), Pj(5)>>, <<Pj(6), Pj(7)>>, <<Pj(7), Pj(8)>>, <<Pj(8), Pj(9)>>,
      <<Pj(9), Pj(10)>>, <<Pj(10), Pj(11)>>>>

\* C21: for every position eval_data_rs returns exactly ten chi angles, in
\* order the angles between the projected points (0,1) .. (4,5) and
\* (6,7) .. (10,11); none pairs point 5 with point 6 and none uses point 12,
\* also on a 13-point group.
C21_ChiPairing ==
    (last.op = "eval_data_rs" /\ exc = "")
        => \A j \in 1..Len(ret.chis) :
              /\ Len(ret.chis[j].of) = 10
              /\ ret.chis[j].of = ChiPairs
              /\ \A k \in 1..Len(ret.chis[j].of) :
                    /\ ret.chis[j].of[k] # <<Pj(5), Pj(6)>>
                    /\ Pj(12) \notin {ret.chis[j].of[k][1], ret.chis[j].of[k][2]}

\* eval_data_rs returned the chi angles of a 13-point group.
C21_Witness ==
    /\ last.op = "eval_data_rs"
    /\ exc = ""
    /\ Len(ret.chis) = 1
    /\ 12 \in DOMAIN ret.chis[1].pts

\* C22: for every position eval_data_rs returns exactly twelve radii, the
\* k-th from the measured point k to the centre, also on a 13-point group;
\* the centre is the intersection of the line through the projected points
\* 0 and 6 with the line through the projected points 5 and 11.
C22_RadiiDataFlow ==
    (last.op = "eval_data_rs" /\ exc = "")
        => \A j \in 1..Len(ret.rss) :
              /\ Len(ret.rss[j].of) = 12
              /\ \A k \in 1..Len(ret.rss[j].of) : ret.rss[j].of[k] = Msd(k - 1)
              /\ ret.cens[j].lines = <<Pj(0), Pj(6), Pj(5), Pj(11)>>
              /\ ret.cens[j].pts = ret.rss[j].pts

\* eval_data_rs returned the radii of a 13-point group, twelve of them.
C22_Witness ==
    /\ last.op = "eval_data_rs"
    /\ exc = ""
    /\ Len(ret.rss) = 1
    /\ Len(ret.rss[1].of) = 12
    /\ DOMAIN ret.rss[1].pts = 0..12

\* The angles of the rows read_data processed.
AngsOf == {Ang(stream[k]) : k \in {k \in 1..Len(stream) : IsStored(stream[k])}}

\* C23: after read_data on any stream every angle of the result is the angle
\* of a processed data row and every run under an angle is the run of a
\* processed data row of that angle; a stream without data rows gives the
\* empty result.
C23_NoFabricatedGroups ==
    pc = "done"
        => /\ DOMAIN Result \subseteq AngsOf
           /\ \A a \in DOMAIN Result : DOMAIN Result[a] \subseteq RunsUnder(a)

\* The coordinates c are those of a row of the stream with angle a, run r
\* and actuator position p.
FromRowOf(a, r, p, c) ==
    \E k \in 1..Len(stream) :
        /\ Coords(stream[k]) = c
        /\ Ang(stream[k]) = a
        /\ Run(stream[k]) = r
        /\ Pos(stream[k]) = p

\* C24: after read_data on a stream of parseable data rows, the record
\* stored under angle a, run r and position p holds at each point index
\* zeros or the coordinates of a row of angle a, run r and position p, also
\* when a group ends before its last point index.
C24_RecordProvenance ==
    (pc = "done" /\ AllGood(stream))
        => \A a \in DOMAIN Result : \A r \in DOMAIN Result[a] :
              \A j \in 1..Len(Result[a][r]) :
                 LET rec == Result[a][r][j] IN
                 \A i \in DOMAIN rec[2] :
                    \/ rec[2][i] = <<0, 0, 0>>
                    \/ FromRowOf(a, r, rec[1].v, rec[2][i])

\* C25: on a stream of valid data rows, the last group complete or not, the
\* final flush only adds the pending buffer: every record that an earlier
\* flush stored in the current run's position map is there unchanged after
\* it.
C25_FinalFlushKeeps ==
    [][(pc' = "done" /\ pc # "done" /\ AllGood(stream))
          => /\ Len(_apos') >= Len(_apos)
             /\ \A j \in 1..Len(_apos) : _apos'[j] = _apos[j]]_vars

\* C26: get_dats(ang, run, pos=p) with a position p returns the two-element
\* [p, points] of the record of the run whose position is p, wherever the
\* record is in the run's map; when the run has no record at p it does not
\* return the records of other positions.
C26_SinglePosition ==
    ( /\ last.op = "get_dats"
      /\ last.pos # None
      /\ dats.t = "dict"
      /\ ~Absent(last.ang, last.run) )
        => LET s == dats.d[last.ang][last.run] IN
           IF \E j \in 1..Len(s) : s[j][1].v = last.pos.v
           THEN /\ exc = ""
                /\ ret.t = "pair"
                /\ ret.pos = last.pos.v
                /\ \E j \in 1..Len(s) :
                      s[j][1].v = last.pos.v /\ s[j][2] = ret.pts
           ELSE ~(ret.t = "list" /\ ret.l # <<>>)

\* C27: starting from an element whose three mode flags are 0, after any
\* sequence of set_mosaic, set_asymmetric_cut, set_johansson and set_crystal
\* the mosaic flag is never 1 together with the asymmetric-cut flag or the
\* Johansson flag.
C27_MosaicExclusive ==
    ~(oe.F_MOSAIC = 1 /\ (oe.F_BRAGG_A = 1 \/ oe.F_JOHANSSON = 1))

\* set_mosaic was called on a crystal that had an asymmetric cut and a
\* Johansson radius set, and cleared both flags.
C27_Witness ==
    /\ oe.F_MOSAIC = 1
    /\ oe.A_BRAGG # 0
    /\ oe.R_JOHANSSON # 0
    /\ oe.F_BRAGG_A = 0
    /\ oe.F_JOHANSSON = 0

Abs(x) == IF x < 0 THEN 0 - x ELSE x

\* C28: test_point_on_plane prints 'point on plane' exactly when the point
\* is within epsilon of the plane on either side, |A*x + B*y + C*z + D| <=
\* epsilon; a point farther than epsilon on the negative side of the normal
\* is reported as not on the plane.
C28_PointOnPlane ==
    last.op = "test_point_on_plane"
        => ( "OK => point on plane" \in printed
               <=> Abs(SignedDist(last.point, last.plane)) <= epsilon )

====
